---- MODULE Spec2Model ----
(***************************************************************************)
(* Model of the configuration module (feedback_loopconfig.py) and of the   *)
(* storage manager (feedback_loopstorage_manager.py).                      *)
(*                                                                         *)
(* Conventions.                                                            *)
(*  - A Python str is a sequence of one-character strings; "" is << >>.    *)
(*  - An Optional value (None or a value) is a sequence of length 0 or 1.  *)
(*  - A float is the integer number of hundredths (1.0 is 100).            *)
(*  - `last` holds what the most recent operation returned, raised and     *)
(*    logged; its shape depends on last.op.                                *)
(***************************************************************************)
EXTENDS Integers, Sequences, FiniteSets, TLC

VARIABLES env, dotenv, pc, class_defaults, firebase_config, loop_config,
          apps, managers, envChanges, last

vars == <<env, dotenv, pc, class_defaults, firebase_config, loop_config,
          apps, managers, envChanges, last>>

----------------------------------------------------------------------------
(* Bounds of the model *)

\* os.environ mutations explored after the import
MaxEnvChanges == 1
\* StorageManager objects alive at once
MaxManagers == 2
\* length of a PerformanceMetric's tags list
MaxTags == 1

----------------------------------------------------------------------------
(* Strings *)

RECURSIVE Join(_, _)
\* sep.join(parts) for TLC strings
Join(parts, sep) ==
    IF parts = << >> THEN ""
    ELSE IF Len(parts) = 1 THEN parts[1]
    ELSE parts[1] \o sep \o Join(Tail(parts), sep)

RECURSIVE ReplaceEscapedNewlines(_)
\* s.replace('\\n', '\n'): every backslash followed by n, scanned left to
\* right without overlap, becomes one newline character
ReplaceEscapedNewlines(s) ==
    IF s = << >> THEN << >>
    ELSE IF Len(s) >= 2 /\ s[1] = "\\" /\ s[2] = "n"
         THEN <<"\n">> \o ReplaceEscapedNewlines(SubSeq(s, 3, Len(s)))
         ELSE <<s[1]>> \o ReplaceEscapedNewlines(Tail(s))

Range(s) == {s[i] : i \in DOMAIN s}

----------------------------------------------------------------------------
(* feedback_loopconfig.py *)

MetricType == {"response_time", "error_rate", "memory_usage", "cpu_usage",
               "throughput", "latency", "success_rate"}

\* the dataclass fields of FirebaseConfig, in declaration order
Fields == <<"project_id", "private_key", "client_email", "database_url">>

FieldSet == Range(Fields)

\* the environment variable each field's default reads
EnvName(f) ==
    CASE f = "project_id"   -> "FIREBASE_PROJECT_ID"
      [] f = "private_key"  -> "FIREBASE_PRIVATE_KEY"
      [] f = "client_email" -> "FIREBASE_CLIENT_EMAIL"
      [] f = "database_url" -> "FIREBASE_DATABASE_URL"

EnvNames == {EnvName(f) : f \in FieldSet}

\* os.getenv(name, default): the default when the variable is not set
Getenv(e, name, default) == IF e[name] = << >> THEN default ELSE e[name][1]

\* load_dotenv(): every key of the .env file that the environment does not
\* already hold is added; keys already set are not overridden
load_dotenv(e, file) ==
    [n \in EnvNames |-> IF e[n] = << >> THEN file[n] ELSE e[n]]

\* the default values of the four fields, as the class body evaluates them
FieldDefaults(e) ==
    [f \in FieldSet |->
        IF f = "private_key"
        THEN ReplaceEscapedNewlines(Getenv(e, EnvName(f), << >>))
        ELSE Getenv(e, EnvName(f), << >>)]

\* MissingFields as it would be with a `break` after the first append
MissingFieldsFirstOnly(obj) ==
    LET all == SelectSeq(Fields, LAMBDA f : obj[f] = << >>)
    IN  IF all = << >> THEN << >> ELSE <<all[1]>>

\* MissingFields as it would be with the loop stopping one field early
MissingFieldsSkipLast(obj) ==
    SelectSeq(SubSeq(Fields, 1, Len(Fields) - 1), LAMBDA f : obj[f] = << >>)

\* the `missing` list of FirebaseConfig.__post_init__: self.__dict__ holds
\* the fields in declaration order; a field is missing when its value is falsy
MissingFields(obj) == SelectSeq(Fields, LAMBDA f : obj[f] = << >>)

\* FirebaseConfig(**args): the generated __init__ stores each argument, or
\* the class default when it is omitted, then __post_init__ validates
FirebaseConfig(args, defaults) ==
    LET obj == [f \in FieldSet |->
                   IF args[f] = << >> THEN defaults[f] ELSE args[f][1]]
        missing == MissingFields(obj)
        error_msg == "Missing Firebase configs: " \o Join(missing, ", ")
    IN  IF missing # << >>
        THEN [raised |-> "ValueError", obj |-> obj, missing |-> missing,
              error_msg |-> error_msg,
              log |-> <<[level |-> "ERROR", msg |-> error_msg]>>]
        ELSE [raised |-> "", obj |-> obj, missing |-> missing,
              error_msg |-> "",
              log |-> <<[level |-> "INFO",
                         msg |-> "Firebase configuration validated successfully"]>>]

\* DefaultThresholds as it would be with an entry for every MetricType
DefaultThresholdsAllKinds ==
    [m \in MetricType |-> [warning |-> 100, critical |-> 300]]

\* the default table of LoopConfig.__post_init__
DefaultThresholds ==
    [m \in {"response_time", "error_rate", "memory_usage", "cpu_usage",
            "success_rate"} |->
        CASE m = "response_time" -> [warning |-> 100,  critical |-> 300]
          [] m = "error_rate"    -> [warning |-> 1,    critical |-> 5]
          [] m = "memory_usage"  -> [warning |-> 7000, critical |-> 8500]
          [] m = "cpu_usage"     -> [warning |-> 7500, critical |-> 9000]
          [] m = "success_rate"  -> [warning |-> 9500, critical |-> 9000]]

\* PostInitThresholds as it would be with `if not self.performance_thresholds`
PostInitThresholdsFalsy(arg) ==
    IF arg = << >> \/ DOMAIN arg[1] = {} THEN DefaultThresholds ELSE arg[1]

\* LoopConfig.__post_init__: the table is installed when the field is None
PostInitThresholds(arg) == IF arg = << >> THEN DefaultThresholds ELSE arg[1]

\* LoopConfig(performance_thresholds=arg), the other fields at their defaults
LoopConfig(arg) ==
    LET thresholds == PostInitThresholds(arg)
    IN  [obj |-> [collection_interval_seconds |-> 30,
                  analysis_window_minutes |-> 60,
                  anomaly_threshold_stddev |-> 250,
                  corrective_action_cooldown_seconds |-> 300,
                  max_concurrent_actions |-> 3,
                  retention_days |-> 30,
                  performance_thresholds |-> thresholds],
         log |-> <<[level |-> "INFO",
                    msg |-> "Loop config initialized with "
                            \o ToString(Cardinality(DOMAIN thresholds))
                            \o " metric thresholds"]>>]

----------------------------------------------------------------------------
(* feedback_loopstorage_manager.py *)

RECURSIVE ZeroPad(_, _)
\* the decimal digits of n, padded with zeros on the left to width w
ZeroPad(n, w) ==
    IF w <= 1 \/ n >= 10 ^ (w - 1) THEN ToString(n)
    ELSE "0" \o ZeroPad(n, w - 1)

\* datetime.isoformat(sep): date, sep, time; the microseconds only when they
\* are not zero; the UTC offset only when the datetime is timezone-aware
IsoFormatSep(dt, sep) ==
    LET off == IF dt.utcoffset = << >> THEN 0 ELSE dt.utcoffset[1]
        mag == IF off < 0 THEN 0 - off ELSE off
    IN  ZeroPad(dt.year, 4) \o "-" \o ZeroPad(dt.month, 2) \o "-"
        \o ZeroPad(dt.day, 2) \o sep
        \o ZeroPad(dt.hour, 2) \o ":" \o ZeroPad(dt.minute, 2) \o ":"
        \o ZeroPad(dt.second, 2)
        \o (IF dt.microsecond # 0 THEN "." \o ZeroPad(dt.microsecond, 6) ELSE "")
        \o (IF dt.utcoffset = << >> THEN ""
            ELSE (IF off < 0 THEN "-" ELSE "+")
                 \o ZeroPad(mag \div 60, 2) \o ":" \o ZeroPad(mag % 60, 2))

\* datetime.isoformat()
isoformat(dt) == IsoFormatSep(dt, "T")

\* PerformanceMetric(**args): metadata and tags default to empty, the
\* timestamp to datetime.utcnow(), which is `now`
PerformanceMetric(args, now) ==
    [metric_id |-> args.metric_id,
     metric_type |-> args.metric_type,
     value |-> args.value,
     timestamp |-> IF args.timestamp = << >> THEN now ELSE args.timestamp[1],
     source |-> args.source,
     metadata |-> IF args.metadata = << >> THEN << >> ELSE args.metadata[1],
     tags |-> IF args.tags = << >> THEN << >> ELSE args.tags[1]]

\* CorrectiveAction(**args): status defaults to "pending", created_at to
\* datetime.utcnow(), executed_at, result and error to None
CorrectiveAction(args, now) ==
    [action_id |-> args.action_id,
     action_type |-> args.action_type,
     trigger_metric_id |-> args.trigger_metric_id,
     parameters |-> args.parameters,
     status |-> IF args.status = << >> THEN "pending" ELSE args.status[1],
     created_at |-> now,
     executed_at |-> args.executed_at,
     result |-> args.result,
     error |-> args.error]

\* MetricDict as it would be with str(metric.timestamp)
MetricDictStr(metric) ==
    [metric EXCEPT !.timestamp = IsoFormatSep(metric.timestamp, " ")]

\* the metric_dict of store_metric: metric.dict(), with the timestamp
\* replaced by its isoformat()
MetricDict(metric) ==
    [metric EXCEPT !.timestamp = isoformat(metric.timestamp)]

\* the dictionary _initialize_firebase hands to credentials.Certificate
CertificateDict(cfg) ==
    [project_id |-> cfg.project_id,
     private_key |-> cfg.private_key,
     client_email |-> cfg.client_email]

\* the options _initialize_firebase hands to firebase_admin.initialize_app
AppOptions(cfg) == [databaseURL |-> cfg.database_url]

\* what a call into the firebase_admin library may do: return, raise
\* ValueError, or raise another exception
LibOutcomes == {"ok", "ValueError", "FirebaseError"}

\* firebase_admin.initialize_app: ValueError when the default app exists
InitializeAppOutcome(appsNow, outcome) ==
    IF appsNow # << >> THEN "ValueError" ELSE outcome

\* the body of the `if not firebase_admin._apps:` block, with its handlers
InitializeBlock(appsNow, cfg, certOutcome, initOutcome) ==
    LET initRes == InitializeAppOutcome(appsNow, initOutcome)
        exc == IF certOutcome # "ok" THEN certOutcome
               ELSE IF initRes # "ok" THEN initRes ELSE ""
        called == certOutcome = "ok"
    IN  [apps |-> IF exc = ""
                  THEN <<[name |-> "[DEFAULT]",
                          credential |-> CertificateDict(cfg),
                          options |-> AppOptions(cfg)]>>
                  ELSE appsNow,
         calledCertificate |-> TRUE,
         calledInitialize |-> called,
         credential |-> IF called THEN <<CertificateDict(cfg)>> ELSE << >>,
         options |-> IF called THEN <<AppOptions(cfg)>> ELSE << >>,
         caught |-> exc,
         raised |-> IF exc \in {"", "ValueError"} THEN "" ELSE exc,
         log |-> IF exc = ""
                 THEN <<[level |-> "INFO",
                         msg |-> "Firebase initialized successfully"]>>
                 ELSE IF exc = "ValueError"
                 THEN <<[level |-> "WARNING",
                         msg |-> "Firebase already initialized"]>>
                 ELSE <<[level |-> "ERROR",
                         msg |-> "Failed to initialize Firebase"]>>]

\* initialize_firebase as it would be without the `if not firebase_admin._apps`
initialize_firebase_unguarded(appsNow, cfg, certOutcome, initOutcome) ==
    InitializeBlock(appsNow, cfg, certOutcome, initOutcome)

\* StorageManager._initialize_firebase
initialize_firebase(appsNow, cfg, certOutcome, initOutcome) ==
    IF appsNow = << >>
    THEN InitializeBlock(appsNow, cfg, certOutcome, initOutcome)
    ELSE [apps |-> appsNow, calledCertificate |-> FALSE,
          calledInitialize |-> FALSE, credential |-> << >>,
          options |-> << >>, caught |-> "", raised |-> "", log |-> << >>]

\* firestore.client(): the client of the default app; ValueError when no
\* default app exists
FirestoreClient(appsNow) ==
    IF appsNow = << >> THEN [raised |-> "ValueError", db |-> << >>]
    ELSE [raised |-> "", db |-> <<[app |-> appsNow[1].name]>>]

\* StorageManager(): __init__ runs _initialize_firebase, then firestore.client()
StorageManager(appsNow, cfg, certOutcome, initOutcome) ==
    LET init == initialize_firebase(appsNow, cfg, certOutcome, initOutcome)
        client == FirestoreClient(init.apps)
    IN  [apps |-> init.apps,
         init |-> init,
         raised |-> IF init.raised # "" THEN init.raised ELSE client.raised,
         db |-> IF init.raised # "" THEN << >> ELSE client.db,
         log |-> init.log]

----------------------------------------------------------------------------
(* Inputs *)

\* the value a variable holds when the process environment sets it
EnvValue(n) ==
    IF n = "FIREBASE_PRIVATE_KEY" THEN <<"k", "\\", "n">> ELSE <<"e">>

\* the value the .env file gives a variable
DotenvValue(n) ==
    IF n = "FIREBASE_PRIVATE_KEY" THEN <<"\\", "n", "d">> ELSE <<"d">>

\* a variable is unset, set to the empty string, or set to a value
EnvStates(n) == {<< >>, << << >> >>, <<EnvValue(n)>>}

\* the variables the .env file defines, when there is one
DotenvNames == {"FIREBASE_PROJECT_ID", "FIREBASE_PRIVATE_KEY"}

\* no .env file, or one that defines DotenvNames
DotenvFiles == {[n \in EnvNames |-> << >>],
                [n \in EnvNames |->
                    IF n \in DotenvNames THEN <<DotenvValue(n)>> ELSE << >>]}

\* what os.environ[n] may be changed to while the process runs
NewEnvStates(n) == {<< >>, << << >> >>, <<<<"z">>>>}

\* keyword arguments of FirebaseConfig (a field maps to << >> when it is
\* omitted): none, the four fields each "" or a value, or one field alone
FirebaseConfigArgs ==
    LET given == {<< << >> >>, <<<<"x">>>>}
    IN  [FieldSet -> given]
        \cup {[f \in FieldSet |-> IF f = g THEN v ELSE << >>] :
                 g \in FieldSet, v \in given}
        \cup {[f \in FieldSet |-> << >>]}

\* performance_thresholds arguments: None, {}, and two non-empty maps
ThresholdArgs ==
    {<< >>,
     << << >> >>,
     <<[m \in {"throughput"} |-> [warning |-> 10, critical |-> 20]]>>,
     <<[m \in {"response_time", "latency"} |->
            [warning |-> 200, critical |-> 400]]>>}


\* datetimes: naive without and with microseconds, aware at UTC and at -05:30
Timestamps ==
    {[year |-> 2024, month |-> 1, day |-> 5, hour |-> 3, minute |-> 4,
      second |-> 5, microsecond |-> 0, utcoffset |-> << >>],
     [year |-> 2024, month |-> 11, day |-> 30, hour |-> 23, minute |-> 59,
      second |-> 59, microsecond |-> 123, utcoffset |-> << >>],
     [year |-> 987, month |-> 6, day |-> 15, hour |-> 12, minute |-> 0,
      second |-> 0, microsecond |-> 0, utcoffset |-> <<0>>],
     [year |-> 2024, month |-> 1, day |-> 5, hour |-> 3, minute |-> 4,
      second |-> 5, microsecond |-> 500000, utcoffset |-> <<0 - 330>>]}

\* what datetime.utcnow() may return: a naive datetime
UtcNow == {t \in Timestamps : t.utcoffset = << >>}

\* tag lists of at most MaxTags tags
TagLists == UNION {[1..n -> {"a"}] : n \in 0..MaxTags}

\* keyword arguments of PerformanceMetric
MetricArgs ==
    [metric_id : {"m1"},
     metric_type : {"cpu_usage", "latency"},
     value : {0, 1550},
     timestamp : {<< >>} \cup {<<t>> : t \in Timestamps},
     source : {"probe"},
     metadata : {<< >>, <<[k \in {"host"} |-> "h1"]>>},
     tags : {<< >>} \cup {<<l>> : l \in TagLists}]

\* keyword arguments of CorrectiveAction
ActionArgs ==
    [action_id : {"a1"},
     action_type : {"restart"},
     trigger_metric_id : {"m1"},
     parameters : {<< >>},
     status : {<< >>, <<"pending">>, <<"executing">>, <<"completed">>,
               <<"failed">>, <<"cancelled">>},
     executed_at : {<< >>} \cup {<<t>> : t \in UtcNow},
     result : {<< >>},
     error : {<< >>, <<"boom">>}]

----------------------------------------------------------------------------
(* State machine *)

Init ==
    /\ env \in [EnvNames -> UNION {EnvStates(n) : n \in EnvNames}]
    /\ \A n \in EnvNames : env[n] \in EnvStates(n)
    /\ dotenv \in DotenvFiles
    /\ pc = "start"
    /\ class_defaults = << >>
    /\ firebase_config = << >>
    /\ loop_config = << >>
    /\ apps = << >>
    /\ managers = 0
    /\ envChanges = 0
    /\ last = [op |-> "none"]

\* import of the config module: load_dotenv(), the class bodies, then the two
\* module-level constructions; an exception aborts the import
ImportConfig ==
    /\ pc = "start"
    /\ LET e1 == load_dotenv(env, dotenv)
           defaults == FieldDefaults(e1)
           fc == FirebaseConfig([f \in FieldSet |-> << >>], defaults)
           lc == LoopConfig(<< >>)
       IN  /\ env' = e1
           /\ IF fc.raised # ""
              THEN /\ pc' = "aborted"
                   /\ class_defaults' = << >>
                   /\ firebase_config' = << >>
                   /\ loop_config' = << >>
                   /\ last' = [op |-> "import", raised |-> fc.raised,
                               obj |-> fc.obj, missing |-> fc.missing,
                               error_msg |-> fc.error_msg, log |-> fc.log]
              ELSE /\ pc' = "loaded"
                   /\ class_defaults' = <<defaults>>
                   /\ firebase_config' = <<fc.obj>>
                   /\ loop_config' = <<lc.obj>>
                   /\ last' = [op |-> "import", raised |-> "",
                               obj |-> fc.obj, missing |-> fc.missing,
                               error_msg |-> "", log |-> fc.log \o lc.log]
    /\ UNCHANGED <<dotenv, apps, managers, envChanges>>

\* the process changes or deletes one environment variable after the import
\* (a change before the import is another initial environment)
SetEnv ==
    /\ pc = "loaded"
    /\ envChanges < MaxEnvChanges
    /\ \E n \in EnvNames : \E v \in NewEnvStates(n) :
          /\ env[n] # v
          /\ env' = [env EXCEPT ![n] = v]
    /\ envChanges' = envChanges + 1
    /\ UNCHANGED <<dotenv, pc, class_defaults, firebase_config, loop_config,
                   apps, managers, last>>

\* FirebaseConfig(...) called by code that imported the module
ConstructFirebaseConfig ==
    /\ pc = "loaded"
    /\ \E args \in FirebaseConfigArgs :
          LET fc == FirebaseConfig(args, class_defaults[1])
          IN  last' = [op |-> "FirebaseConfig", args |-> args,
                       raised |-> fc.raised,
                       obj |-> fc.obj, missing |-> fc.missing,
                       error_msg |-> fc.error_msg, log |-> fc.log]
    /\ UNCHANGED <<env, dotenv, pc, class_defaults, firebase_config,
                   loop_config, apps, managers, envChanges>>

\* LoopConfig(performance_thresholds=arg) called by code that imported the module
ConstructLoopConfig ==
    /\ pc = "loaded"
    /\ \E arg \in ThresholdArgs :
          LET lc == LoopConfig(arg)
          IN  last' = [op |-> "LoopConfig", arg |-> arg, raised |-> "",
                       obj |-> lc.obj, log |-> lc.log]
    /\ UNCHANGED <<env, dotenv, pc, class_defaults, firebase_config,
                   loop_config, apps, managers, envChanges>>

\* StorageManager() called by code that imported the storage module, which
\* imports the config module first
ConstructStorageManager ==
    /\ pc = "loaded"
    /\ managers < MaxManagers
    /\ \E certOutcome \in LibOutcomes, initOutcome \in LibOutcomes :
          LET sm == StorageManager(apps, firebase_config[1],
                                   certOutcome, initOutcome)
          IN  /\ apps' = sm.apps
              /\ managers' = IF sm.raised = "" THEN managers + 1 ELSE managers
              /\ last' = [op |-> "StorageManager", appsBefore |-> apps,
                          init |-> sm.init, raised |-> sm.raised,
                          db |-> sm.db, log |-> sm.log]
    /\ UNCHANGED <<env, dotenv, pc, class_defaults, firebase_config,
                   loop_config, envChanges>>

\* store_metric(metric) on a constructed StorageManager, up to the point
\* where metric_dict is built
StoreMetric ==
    /\ pc = "loaded"
    /\ managers > 0
    /\ \E args \in MetricArgs, now \in UtcNow :
          LET metric == PerformanceMetric(args, now)
          IN  last' = [op |-> "store_metric", metric |-> metric,
                       metric_dict |-> MetricDict(metric)]
    /\ UNCHANGED <<env, dotenv, pc, class_defaults, firebase_config,
                   loop_config, apps, managers, envChanges>>

\* CorrectiveAction(...) called by code that imported the storage module
ConstructCorrectiveAction ==
    /\ pc = "loaded"
    /\ \E args \in ActionArgs, now \in UtcNow :
          last' = [op |-> "CorrectiveAction", args |-> args,
                   obj |-> CorrectiveAction(args, now)]
    /\ UNCHANGED <<env, dotenv, pc, class_defaults, firebase_config,
                   loop_config, apps, managers, envChanges>>

\* the configuration module and its callers
NextConfig ==
    \/ ImportConfig
    \/ SetEnv
    \/ ConstructFirebaseConfig
    \/ ConstructLoopConfig

\* start-up: the import, then the storage managers
NextStartup ==
    \/ ImportConfig
    \/ SetEnv
    \/ ConstructStorageManager

\* the record models and store_metric
NextRecords ==
    \/ ImportConfig
    \/ ConstructStorageManager
    \/ StoreMetric
    \/ ConstructCorrectiveAction

Next ==
    \/ ImportConfig
    \/ SetEnv
    \/ ConstructFirebaseConfig
    \/ ConstructLoopConfig
    \/ ConstructStorageManager
    \/ StoreMetric
    \/ ConstructCorrectiveAction

Spec == Init /\ [][Next]_vars

SpecConfig == Init /\ [][NextConfig]_vars

SpecStartup == Init /\ [][NextStartup]_vars

SpecRecords == Init /\ [][NextRecords]_vars

----------------------------------------------------------------------------
(* Properties *)

\* the position of a field in the declaration order
FieldIndex(f) == CHOOSE i \in DOMAIN Fields : Fields[i] = f

\* the log holds a record of the given level
Logged(log, level) == \E i \in DOMAIN log : log[i].level = level

\* the last operation constructed a FirebaseConfig (by a call, or in the import)
BuiltFirebaseConfig == last.op \in {"FirebaseConfig", "import"}

\* C1: constructing FirebaseConfig fails if and only if some field is empty;
\* the error message then lists exactly the empty fields, each once, in
\* declaration order; with the four fields non-empty nothing is raised
C1_MissingListedExactlyInOrder ==
    BuiltFirebaseConfig =>
        LET empty == {f \in FieldSet : last.obj[f] = << >>}
        IN  /\ (last.raised # "") <=> (empty # {})
            /\ last.raised \in {"", "ValueError"}
            /\ Range(last.missing) = empty
            /\ Len(last.missing) = Cardinality(empty)
            /\ \A i, j \in DOMAIN last.missing :
                  i < j => FieldIndex(last.missing[i]) < FieldIndex(last.missing[j])
            /\ last.raised # "" =>
                  last.error_msg
                    = "Missing Firebase configs: " \o Join(last.missing, ", ")
            /\ last.raised # "" => Logged(last.log, "ERROR")

\* C1 witness: a call with project_id and client_email empty fails and names
\* these two, in this order
C1_Witness ==
    /\ last.op = "FirebaseConfig"
    /\ last.raised = "ValueError"
    /\ last.obj["private_key"] # << >>
    /\ last.error_msg = "Missing Firebase configs: project_id, client_email"

\* the threshold map is the documented default table
IsDocumentedDefaults(t) ==
    /\ DOMAIN t = {"response_time", "error_rate", "memory_usage", "cpu_usage",
                   "success_rate"}
    /\ t["response_time"] = [warning |-> 100, critical |-> 300]
    /\ t["error_rate"] = [warning |-> 1, critical |-> 5]
    /\ t["memory_usage"] = [warning |-> 7000, critical |-> 8500]
    /\ t["cpu_usage"] = [warning |-> 7500, critical |-> 9000]
    /\ t["success_rate"] = [warning |-> 9500, critical |-> 9000]
    /\ "throughput" \notin DOMAIN t
    /\ "latency" \notin DOMAIN t

\* C2: LoopConfig constructed without performance_thresholds holds exactly
\* the five default metric kinds with their warning/critical pairs, and
\* neither throughput nor latency
C2_DefaultThresholdTable ==
    /\ (last.op = "LoopConfig" /\ last.arg = << >>) =>
          IsDocumentedDefaults(last.obj.performance_thresholds)
    /\ loop_config # << >> =>
          IsDocumentedDefaults(loop_config[1].performance_thresholds)

\* C2 witness: a LoopConfig was constructed without the argument
C2_Witness ==
    /\ last.op = "LoopConfig"
    /\ last.arg = << >>
    /\ Cardinality(DOMAIN last.obj.performance_thresholds) = 5

\* C8: a supplied performance_thresholds map, the empty one included, is
\* the configuration's map unchanged
C8_SuppliedThresholdsKept ==
    (last.op = "LoopConfig" /\ last.arg # << >>) =>
        last.obj.performance_thresholds = last.arg[1]

\* C8 witness: a LoopConfig built from the empty map holds no threshold
C8_Witness ==
    /\ last.op = "LoopConfig"
    /\ last.arg # << >>
    /\ DOMAIN last.arg[1] = {}
    /\ DOMAIN last.obj.performance_thresholds = {}

\* C7: a FirebaseConfig constructed without arguments holds the values the
\* environment has when it is constructed
C7_ReadsEnvironmentAtConstruction ==
    [][(/\ env' = env
        /\ last'.op = "FirebaseConfig"
        /\ \A f \in FieldSet : last'.args[f] = << >>)
       => last'.obj = FieldDefaults(env')]_vars

\* C3: the metric_dict store_metric builds has the isoformat() of the
\* metric's timestamp as its timestamp and the metric's value in every
\* other field
C3_MetricDictFields ==
    last.op = "store_metric" =>
        /\ last.metric_dict.timestamp = isoformat(last.metric.timestamp)
        /\ last.metric_dict.metric_id = last.metric.metric_id
        /\ last.metric_dict.metric_type = last.metric.metric_type
        /\ last.metric_dict.value = last.metric.value
        /\ last.metric_dict.source = last.metric.source
        /\ last.metric_dict.metadata = last.metric.metadata
        /\ last.metric_dict.tags = last.metric.tags

\* C3 witness: a metric with microseconds and one tag was serialized
C3_Witness ==
    /\ last.op = "store_metric"
    /\ last.metric.timestamp.microsecond = 123
    /\ last.metric.tags = <<"a">>
    /\ last.metric_dict.timestamp = "2024-11-30T23:59:59.000123"

\* the last operation constructed a StorageManager with the app initialized
ConstructedWhenInitialized ==
    last.op = "StorageManager" /\ last.appsBefore # << >>

C5_OtherFailuresLoggedAndRaised ==
    (/\ last.op = "StorageManager"
     /\ last.appsBefore = << >>
     /\ last.init.caught # "") =>
        /\ Logged(last.log, "ERROR")
        /\ last.init.raised # ""
        /\ last.raised # ""
        /\ last.db = << >>

\* C6: a CorrectiveAction has one of the four statuses; without an explicit
\* status it is pending, and executed_at, result and error are absent
\* unless given
C6_StatusIsOneOfFour ==
    last.op = "CorrectiveAction" =>
        /\ last.obj.status \in {"pending", "executing", "completed", "failed"}
        /\ last.args.status = << >> => last.obj.status = "pending"
        /\ last.args.executed_at = << >> => last.obj.executed_at = << >>
        /\ last.args.result = << >> => last.obj.result = << >>
        /\ last.args.error = << >> => last.obj.error = << >>

\* no field of the credentials and options is empty
NoEmptyCredential(credential, options) ==
    /\ credential.project_id # << >>
    /\ credential.private_key # << >>
    /\ credential.client_email # << >>
    /\ options.databaseURL # << >>

\* C9: initialize_app is never called with an empty project_id, private_key,
\* client_email or database_url; a StorageManager is constructed only after
\* the import validated the credentials, and a failed validation leaves no
\* firebase_config, no loop_config and no StorageManager
C9_NeverInitializedWithEmptyCredentials ==
    /\ \A i \in DOMAIN apps : NoEmptyCredential(apps[i].credential, apps[i].options)
    /\ (last.op = "StorageManager" /\ last.init.calledInitialize) =>
          NoEmptyCredential(last.init.credential[1], last.init.options[1])
    /\ (last.op = "StorageManager" \/ managers > 0 \/ apps # << >>) =>
          /\ pc = "loaded"
          /\ \A f \in FieldSet : firebase_config[1][f] # << >>
    /\ pc = "aborted" =>
          /\ firebase_config = << >>
          /\ loop_config = << >>
          /\ managers = 0
          /\ apps = << >>
          /\ last.op = "import"
    /\ (last.op = "import" /\ \E f \in FieldSet : last.obj[f] = << >>) =>
          pc = "aborted"

\* C9 witness: the app was initialized by a StorageManager
C9_Witness ==
    /\ last.op = "StorageManager"
    /\ last.init.calledInitialize
    /\ apps # << >>
    /\ managers = 1

\* C10: the app is initialized at most once; once it is, every later
\* StorageManager skips initialize_app and obtains a database handle
C10_InitializedAtMostOnce ==
    /\ Len(apps) <= 1
    /\ ConstructedWhenInitialized =>
          /\ ~last.init.calledInitialize
          /\ last.raised = ""
          /\ last.db # << >>

\* C10 witness: a StorageManager constructed after the initialization holds
\* a database handle
C10_Witness ==
    /\ ConstructedWhenInitialized
    /\ last.db # << >>
    /\ Len(apps) = 1

====
